---------------------------- MODULE Spec2Model ----------------------------
(***************************************************************************)
(* Inventory ledger and stock-mutation engine of zezor/InventoryMgt.       *)
(*                                                                         *)
(* The database holds the InventoryLevel table (levels) and the            *)
(* InventoryTransaction table (ledger).  The four posting services of      *)
(* inventory/services/inventory.py are translated statement by statement   *)
(* into operators over a table view; a request handled alone applies the   *)
(* whole service inside its transaction.atomic block, and the concurrent   *)
(* specifications run the same statements one at a time per connection     *)
(* under READ COMMITTED row locking.                                       *)
(*                                                                         *)
(* Quantities are DecimalField(16, 3) values; the model counts them in     *)
(* whole units.                                                            *)
(***************************************************************************)
EXTENDS Integers, Sequences, FiniteSets, TLC

(***************************************************************************)
(* Master data and bounds                                                  *)
(***************************************************************************)
Variants == {"WIDG-STD"}
Warehouses == {"wh1", "wh2"}
Bins == {"A1", "B1"}

\* BinLocation.warehouse: the warehouse a bin belongs to
BinWarehouse(b) == IF b = "A1" THEN "wh1" ELSE "wh2"

\* largest quantity a document line or a stored level carries in the model
MaxQty == 2

\* quantities a document line can store: the DecimalField has no validator,
\* so zero and negative quantities are storable
Qty == -1 .. MaxQty

None == "None"

\* UnitOfMeasure rows of the organization
Uoms == {"EA", "BOX"}

\* Product.base_uom of the variant's product
base_uom(variant) == "EA"

\* the unique_together key of InventoryLevel
Keys == Variants \X Bins

(***************************************************************************)
(* InventoryLevel rows                                                     *)
(***************************************************************************)
NoLevel == [exists |-> FALSE, warehouse |-> None, on_hand |-> 0, allocated |-> 0]

\* defaults of get_or_create: on_hand 0, allocated 0
NewLevel(warehouse) ==
    [exists |-> TRUE, warehouse |-> warehouse, on_hand |-> 0, allocated |-> 0]

\* rows as the inventory-levels endpoint and earlier postings can leave them
LevelRows ==
    {NoLevel} \cup
    [exists : {TRUE}, warehouse : Warehouses, on_hand : Qty, allocated : Qty]

LevelTables == [Keys -> LevelRows]

EmptyTable == [k \in Keys |-> NoLevel]

\* on_hand of a (variant, bin) pair, an absent level counting as 0
OnHand(lv, k) == IF lv[k].exists THEN lv[k].on_hand ELSE 0

Allocated(lv, k) == IF lv[k].exists THEN lv[k].allocated ELSE 0

\* InventoryLevel.available
available(row) == row.on_hand - row.allocated

Min(a, b) == IF a < b THEN a ELSE b

Abs(a) == IF a < 0 THEN 0 - a ELSE a

(***************************************************************************)
(* InventoryTransaction rows                                               *)
(***************************************************************************)
Txn(type, variant, qty, uom, wf, bf, wt, bt, source_type, source_id) ==
    [type |-> type, variant |-> variant, qty |-> qty, uom |-> uom,
     warehouse_from |-> wf, bin_from |-> bf,
     warehouse_to |-> wt, bin_to |-> bt,
     source_type |-> source_type, source_id |-> source_id]

(***************************************************************************)
(* Document lines                                                          *)
(***************************************************************************)
\* primary keys of the documents: each document table holds one row, whose
\* fields its ModelViewSet can rewrite between two requests
LineIds == {1}

\* GRLine rows whose uom is one of uoms
GRLinesIn(uoms) ==
    [id : LineIds, variant : Variants, warehouse : Warehouses, bin : Bins,
     qty_received : Qty, uom : uoms]

\* goods-receipt lines entered in the base uom of their product
GRLines == {l \in GRLinesIn(Uoms) : l.uom = base_uom(l.variant)}

ShipmentLines ==
    [id : LineIds, variant : Variants, warehouse : Warehouses, bin : Bins, qty : Qty]

StockTransferLines ==
    [id : LineIds, variant : Variants, from_bin : Bins, to_bin : Bins, qty : Qty]

StockCountLines == [variant : Variants, bin : Bins, counted_qty : Qty]

\* a count with one line or with two, in the order the service meets them
StockCounts ==
    [id : LineIds, warehouse : Warehouses,
     lines : {<<l>> : l \in StockCountLines} \cup
             {<<l1, l2>> : l1 \in StockCountLines, l2 \in StockCountLines}]

(***************************************************************************)
(* Statements of the services, over a view lv of the level table           *)
(***************************************************************************)

\* InventoryLevel.objects.get(variant=, warehouse=, bin=) finds a row
LevelMatches(lv, variant, warehouse, bin) ==
    /\ lv[<<variant, bin>>].exists
    /\ lv[<<variant, bin>>].warehouse = warehouse

\* _get_or_create_level: get on (variant, warehouse, bin); when that finds
\* nothing, create, which the unique (variant, bin) constraint rejects with
\* IntegrityError when the pair has a row under another warehouse
_get_or_create_level(lv, variant, warehouse, bin) ==
    IF LevelMatches(lv, variant, warehouse, bin)
    THEN [err |-> "ok", levels |-> lv]
    ELSE IF lv[<<variant, bin>>].exists
         THEN [err |-> "IntegrityError", levels |-> lv]
         ELSE [err |-> "ok",
               levels |-> [lv EXCEPT ![<<variant, bin>>] = NewLevel(warehouse)]]

\* the update run without its primary-key filter: every row takes the change
SaveOnHand_AllRows(lv, k, d) ==
    [j \in Keys |-> IF lv[j].exists THEN [lv[j] EXCEPT !.on_hand = @ + d] ELSE lv[j]]

\* level.on_hand = F('on_hand') + d; level.save(update_fields=["on_hand"])
SaveOnHand(lv, k, d) == [lv EXCEPT ![k].on_hand = @ + d]

\* the outcome of a service that raised: transaction.atomic rolls back
Raised(lv, err) == [err |-> err, levels |-> lv, entries |-> <<>>]

Done(lv, entries) == [err |-> "ok", levels |-> lv, entries |-> entries]

\* ---- post_goods_receipt_line ----
ReceiveTxn(line) ==
    Txn("RECEIVE", line.variant, line.qty_received, line.uom,
        None, None, line.warehouse, line.bin, "GRLine", line.id)

post_goods_receipt_line(lv, line) ==
    LET k == <<line.variant, line.bin>>
        g == _get_or_create_level(lv, line.variant, line.warehouse, line.bin)
    IN  IF g.err # "ok" THEN Raised(lv, g.err)
        ELSE Done(SaveOnHand(g.levels, k, line.qty_received), <<ReceiveTxn(line)>>)

\* ---- post_shipment_line ----
ShipTxn(line) ==
    Txn("SHIP", line.variant, line.qty, base_uom(line.variant),
        line.warehouse, line.bin, None, None, "ShipmentLine", line.id)

\* the check made on whether anything is in stock instead of on qty
ShipInsufficient_AnyStock(level, qty) == level.on_hand <= 0

\* if level.on_hand < qty: raise ValidationError
ShipInsufficient(level, qty) == level.on_hand < qty

\* the whole qty taken off allocated, without the min
ShipAllocated_Qty(level, cur, qty) ==
    IF level.allocated > 0 THEN cur - qty ELSE level.allocated

\* if level.allocated > 0: level.allocated = F('allocated') - min(level.allocated, qty)
ShipAllocated(level, cur, qty) ==
    IF level.allocated > 0 THEN cur - Min(level.allocated, qty) ELSE level.allocated

\* level.save(update_fields=["on_hand", "allocated"]); level is the row as
\* read under the lock, the F() expressions read the row being updated
ShipSave(lv, k, level, qty) ==
    [lv EXCEPT ![k].on_hand = @ - qty,
               ![k].allocated = ShipAllocated(level, @, qty)]

post_shipment_line(lv, line) ==
    LET k == <<line.variant, line.bin>>
        g == _get_or_create_level(lv, line.variant, line.warehouse, line.bin)
    IN  IF g.err # "ok" THEN Raised(lv, g.err)
        ELSE LET level == g.levels[k]
             IN  IF ShipInsufficient(level, line.qty)
                 THEN Raised(lv, "ValidationError")
                 ELSE Done(ShipSave(g.levels, k, level, line.qty), <<ShipTxn(line)>>)


\* ---- post_transfer_line ----
TransferTxn(tline) ==
    Txn("TRANSFER", tline.variant, tline.qty, base_uom(tline.variant),
        BinWarehouse(tline.from_bin), tline.from_bin,
        BinWarehouse(tline.to_bin), tline.to_bin, "StockTransferLine", tline.id)

\* the check made on whether anything is in stock instead of on qty
TransferInsufficient_AnyStock(from_level, qty) == from_level.on_hand <= 0

\* if from_level.on_hand < qty: raise ValidationError
TransferInsufficient(from_level, qty) == from_level.on_hand < qty

\* from_level.on_hand = F('on_hand') - qty; from_level.save(...)
TransferDecrease(lv, k, qty) == SaveOnHand(lv, k, 0 - qty)

\* the destination update left out
TransferIncrease_Missing(lv, k, qty) == lv

\* to_level.on_hand = F('on_hand') + qty; to_level.save(...)
TransferIncrease(lv, k, qty) == SaveOnHand(lv, k, qty)

post_transfer_line(lv, tline) ==
    LET kf == <<tline.variant, tline.from_bin>>
        kt == <<tline.variant, tline.to_bin>>
        g  == _get_or_create_level(lv, tline.variant,
                                   BinWarehouse(tline.from_bin), tline.from_bin)
    IN  IF g.err # "ok" THEN Raised(lv, g.err)
        ELSE IF TransferInsufficient(g.levels[kf], tline.qty)
        THEN Raised(lv, "ValidationError")
        ELSE LET lv2 == TransferDecrease(g.levels, kf, tline.qty)
                 g2  == _get_or_create_level(lv2, tline.variant,
                                             BinWarehouse(tline.to_bin), tline.to_bin)
             IN  IF g2.err # "ok" THEN Raised(lv, g2.err)
                 ELSE Done(TransferIncrease(g2.levels, kt, tline.qty),
                           <<TransferTxn(tline)>>)

\* ---- close_and_post_stock_count ----
\* the counted quantity taken for the difference
CountDelta_Counted(line, level) == line.counted_qty

\* delta = line.counted_qty - level.on_hand
CountDelta(line, level) == line.counted_qty - level.on_hand

\* the *_to pair filled whatever the sign of delta
CountTxn_ToOnly(count, line, delta) ==
    Txn("COUNT", line.variant, delta, base_uom(line.variant),
        None, None, count.warehouse, line.bin,
        "StockCount", count.id)

\* qty=delta, the *_from pair when delta < 0, the *_to pair when delta > 0
CountTxn(count, line, delta) ==
    Txn("COUNT", line.variant, delta, base_uom(line.variant),
        IF delta < 0 THEN count.warehouse ELSE None,
        IF delta < 0 THEN line.bin ELSE None,
        IF delta > 0 THEN count.warehouse ELSE None,
        IF delta > 0 THEN line.bin ELSE None,
        "StockCount", count.id)

\* the body of the loop, for one line, on the outcome r of the lines before it
PostCountLine(r, count, line) ==
    LET k == <<line.variant, line.bin>>
        g == _get_or_create_level(r.levels, line.variant, count.warehouse, line.bin)
    IN  IF g.err # "ok" THEN [err |-> g.err, levels |-> r.levels, entries |-> r.entries]
        ELSE LET delta == CountDelta(line, g.levels[k])
             IN  IF delta # 0
                 THEN [err |-> "ok",
                       levels |-> SaveOnHand(g.levels, k, delta),
                       entries |-> Append(r.entries, CountTxn(count, line, delta))]
                 ELSE [err |-> "ok", levels |-> g.levels, entries |-> r.entries]

\* the loop over the first n lines of the count, in the order the query returns them
RECURSIVE PostCountLines(_, _, _)
PostCountLines(lv, count, n) ==
    IF n = 0 THEN Done(lv, <<>>)
    ELSE LET r == PostCountLines(lv, count, n - 1)
         IN  IF r.err # "ok" THEN r ELSE PostCountLine(r, count, count.lines[n])

close_and_post_stock_count(lv, count) ==
    LET r == PostCountLines(lv, count, Len(count.lines))
    IN  IF r.err # "ok" THEN Raised(lv, r.err) ELSE r

(***************************************************************************)
(* State                                                                   *)
(***************************************************************************)
VARIABLES
    levels,     \* committed InventoryLevel table
    ledger,     \* committed InventoryTransaction rows, in insertion order
    req,        \* the request handled last
    resp,       \* its response: the status returned or the exception raised
    before,     \* levels and ledger as they were when that request arrived
    txn,        \* per database connection: the open transaction of a request
    locks,      \* per (variant, bin) row: the connection holding its row lock
    docs        \* the document tables the requests read and write

vars == <<levels, ledger, req, resp, before, txn, locks, docs>>

\* a Product row: the fields the model declares
Product ==
    [name |-> "Widget", sku_base |-> "WIDG", base_uom |-> "EA",
     track_serials |-> FALSE, track_lots |-> FALSE, is_active |-> TRUE]

\* the document tables: the Reservation rows, in the order of their
\* insertion, the UOMConversion rows, the ids of the StockCount rows whose
\* status is CLOSED, the Sale rows and the Product row
NoDocs ==
    [reservations |-> <<>>, conversions |-> {}, closed |-> {},
     sales |-> <<>>, product |-> Product]

\* no connection has a transaction open: requests are handled one at a time
NoTxn == <<>>

NoLocks == [k \in Keys |-> 0]

NoReq == [op |-> "none"]

Snapshot == [levels |-> levels, ledger |-> ledger]

\* a view's action: run the service in its transaction.atomic block and
\* answer "posted", or let the exception out with nothing committed
Handle(r, op, arg) ==
    /\ UNCHANGED <<txn, locks, docs>>
    /\ before' = Snapshot
    /\ req' = [op |-> op, arg |-> arg]
    /\ levels' = r.levels
    /\ ledger' = ledger \o r.entries
    /\ resp' = IF r.err = "ok" THEN "posted" ELSE r.err

\* GRLineViewSet.post_line
PostGRLine(line) ==
    Handle(post_goods_receipt_line(levels, line), "post_goods_receipt_line", line)

\* ShipmentLineViewSet.post_line
PostShipmentLine(line) ==
    Handle(post_shipment_line(levels, line), "post_shipment_line", line)


\* StockTransferLineViewSet.post_line
PostTransferLine(tline) ==
    Handle(post_transfer_line(levels, tline), "post_transfer_line", tline)

\* StockCountViewSet.close: the status save and the service in one
\* transaction.atomic block
CloseStockCount(count) ==
    LET r == close_and_post_stock_count(levels, count)
    IN  /\ before' = Snapshot
        /\ req' = [op |-> "close_and_post_stock_count", arg |-> count]
        /\ levels' = r.levels
        /\ ledger' = ledger \o r.entries
        /\ docs' = IF r.err = "ok" THEN [docs EXCEPT !.closed = @ \cup {count.id}]
                   ELSE docs
        /\ resp' = IF r.err = "ok" THEN "posted" ELSE r.err
        /\ UNCHANGED <<txn, locks>>

(***************************************************************************)
(* The inventory-levels endpoint: a ModelViewSet over InventoryLevel       *)
(***************************************************************************)
Answer(op, arg, lv, status) ==
    /\ before' = Snapshot
    /\ req' = [op |-> op, arg |-> arg]
    /\ levels' = lv
    /\ resp' = status
    /\ UNCHANGED <<ledger, txn, locks, docs>>

\* POST /inventory-levels/: the serializer's unique-together validator
\* answers 400 when the (variant, bin) pair has a row
CreateLevel(k, row) ==
    IF levels[k].exists
    THEN Answer("create", [key |-> k, row |-> row], levels, "400")
    ELSE Answer("create", [key |-> k, row |-> row], [levels EXCEPT ![k] = row], "201")

\* PUT /inventory-levels/<pk>/: warehouse, on_hand and allocated as sent
UpdateLevel(k, row) ==
    /\ levels[k].exists
    /\ Answer("update", [key |-> k, row |-> row], [levels EXCEPT ![k] = row], "200")

\* DELETE /inventory-levels/<pk>/
DestroyLevel(k) ==
    /\ levels[k].exists
    /\ Answer("destroy", [key |-> k], [levels EXCEPT ![k] = NoLevel], "204")

NextLevels ==
    \E k \in Keys :
        \/ \E row \in LevelRows \ {NoLevel} : CreateLevel(k, row)
        \/ \E row \in LevelRows \ {NoLevel} : UpdateLevel(k, row)
        \/ DestroyLevel(k)

(***************************************************************************)
(* One request against any level table.  Every table of LevelTables is    *)
(* one the service can hold: the inventory-levels endpoint writes it.      *)
(***************************************************************************)
InitAny ==
    /\ levels \in LevelTables
    /\ ledger = <<>>
    /\ req = NoReq
    /\ resp = "none"
    /\ before = [levels |-> levels, ledger |-> <<>>]
    /\ txn = NoTxn
    /\ locks = NoLocks
    /\ docs = NoDocs

Fresh == req.op = "none"

NextReceipt == \E line \in GRLines : Fresh /\ PostGRLine(line)

SpecReceipt == InitAny /\ [][NextReceipt]_vars

NextShipment == \E line \in ShipmentLines : Fresh /\ PostShipmentLine(line)

SpecShipment == InitAny /\ [][NextShipment]_vars

NextTransfer == \E tline \in StockTransferLines : Fresh /\ PostTransferLine(tline)

SpecTransfer == InitAny /\ [][NextTransfer]_vars

NextCount == \E count \in StockCounts : Fresh /\ CloseStockCount(count)

SpecCount == InitAny /\ [][NextCount]_vars

(***************************************************************************)
(* The service from an empty database                                      *)
(***************************************************************************)
\* most transactions the ledger holds in the model
MaxLedger == 2

Init ==
    /\ levels = EmptyTable
    /\ ledger = <<>>
    /\ req = NoReq
    /\ resp = "none"
    /\ before = [levels |-> EmptyTable, ledger |-> <<>>]
    /\ txn = NoTxn
    /\ locks = NoLocks
    /\ docs = NoDocs

Open == Len(ledger) < MaxLedger

Next ==
    \/ \E line \in GRLines : Open /\ PostGRLine(line)
    \/ \E line \in ShipmentLines : Open /\ PostShipmentLine(line)
    \/ \E tline \in StockTransferLines : Open /\ PostTransferLine(tline)
    \/ \E count \in StockCounts : Open /\ CloseStockCount(count)

Spec == Init /\ [][Next]_vars

SpecLevels == Init /\ [][NextLevels]_vars

(***************************************************************************)
(* Concurrent requests: one transaction per connection, READ COMMITTED,    *)
(* row locks held to the end of the transaction                            *)
(***************************************************************************)
Conns == DOMAIN txn

Idle ==
    [pc |-> "idle", op |-> "none", arg |-> NoReq, dirty |-> {},
     rows |-> EmptyTable, entries |-> <<>>, level |-> NoLevel, resp |-> "none",
     closing |-> {}]

\* the table as connection p reads it: its own uncommitted rows over the
\* committed ones
View(p) ==
    [k \in Keys |-> IF k \in txn[p].dirty THEN txn[p].rows[k] ELSE levels[k]]

\* a database whose statements never wait for a row lock
LockFree_Never(p, k) == TRUE

\* select_for_update() and the row lock of INSERT and UPDATE: the row is
\* free for p when no other connection holds its lock
LockFree(p, k) == locks[k] \in {0, p}

\* the rows a statement changed in p's view
Changed(p, lv) == {k \in Keys : lv[k] # View(p)[k]}

\* an INSERT or UPDATE statement of p leaving the view lv: it waits for the
\* locks of the rows it writes and keeps them
CanWrite(p, lv) == \A k \in Changed(p, lv) : LockFree(p, k)

Written(p, lv) ==
    LET d == txn[p].dirty \cup Changed(p, lv)
    IN  [txn[p] EXCEPT !.dirty = d,
                       !.rows = [k \in Keys |-> IF k \in d THEN lv[k] ELSE NoLevel]]

LocksWith(p, ks) == [k \in Keys |-> IF k \in ks THEN p ELSE locks[k]]

Released(p) == [k \in Keys |-> IF locks[k] = p THEN 0 ELSE locks[k]]

\* the service raised outside any atomic block: what it wrote so far stays
Rollback_Partial(p, err) ==
    /\ txn' = [txn EXCEPT ![p] = [Idle EXCEPT !.pc = "done", !.op = txn[p].op,
                                              !.arg = txn[p].arg,
                                              !.level = txn[p].level,
                                              !.resp = err]]
    /\ locks' = Released(p)
    /\ levels' = View(p)
    /\ ledger' = ledger \o txn[p].entries

\* the service raised: transaction.atomic rolls back and the view answers
\* with the exception
Rollback(p, err) ==
    /\ txn' = [txn EXCEPT ![p] = [Idle EXCEPT !.pc = "done", !.op = txn[p].op,
                                              !.arg = txn[p].arg,
                                              !.level = txn[p].level,
                                              !.resp = err]]
    /\ locks' = Released(p)
    /\ UNCHANGED <<levels, ledger>>

\* a request reaches the view: the service is entered under transaction.atomic
Begin(p, op, arg) ==
    /\ txn[p].pc = "idle"
    /\ txn' = [txn EXCEPT ![p] = [Idle EXCEPT !.pc = "get_or_create",
                                              !.op = op, !.arg = arg]]
    /\ UNCHANGED <<levels, ledger, locks, req, resp, before, docs>>

TxnKey(p) == <<txn[p].arg.variant, txn[p].arg.bin>>

TxnQty(p) ==
    IF txn[p].op = "post_goods_receipt_line" THEN txn[p].arg.qty_received
    ELSE txn[p].arg.qty

\* level = _get_or_create_level(variant, warehouse, bin)
GetOrCreate(p) ==
    /\ txn[p].pc = "get_or_create"
    /\ LET g == _get_or_create_level(View(p), txn[p].arg.variant,
                                     txn[p].arg.warehouse, txn[p].arg.bin)
       IN  IF g.err # "ok" THEN Rollback(p, g.err)
           ELSE /\ CanWrite(p, g.levels)
                /\ txn' = [txn EXCEPT ![p] =
                             [Written(p, g.levels) EXCEPT
                                  !.pc = "select_for_update",
                                  !.level = g.levels[TxnKey(p)]]]
                /\ locks' = LocksWith(p, Changed(p, g.levels))
                /\ UNCHANGED <<levels, ledger>>
    /\ UNCHANGED <<req, resp, before, docs>>

\* the plain get(pk=level.pk), without select_for_update()
ForUpdateRows_Plain(k) == {}

\* the rows select_for_update().get(pk=level.pk) locks
ForUpdateRows(k) == {k}

\* level = InventoryLevel.objects.select_for_update().get(pk=level.pk)
SelectForUpdate(p) ==
    /\ txn[p].pc = "select_for_update"
    /\ \A k \in ForUpdateRows(TxnKey(p)) : LockFree(p, k)
    /\ locks' = LocksWith(p, ForUpdateRows(TxnKey(p)))
    /\ txn' = [txn EXCEPT ![p].level = View(p)[TxnKey(p)],
                          ![p].pc = IF txn[p].op = "post_shipment_line"
                                    THEN "refresh_from_db" ELSE "save"]
    /\ UNCHANGED <<levels, ledger, req, resp, before, docs>>

\* level.refresh_from_db(); if level.on_hand < qty: ...
RefreshAndCheck(p) ==
    /\ txn[p].pc = "refresh_from_db"
    /\ LET level == View(p)[TxnKey(p)]
       IN  txn' = [txn EXCEPT ![p].level = level,
                              ![p].pc = IF ShipInsufficient(level, TxnQty(p))
                                        THEN "raise" ELSE "save"]
    /\ UNCHANGED <<levels, ledger, locks, req, resp, before, docs>>

\* raise ValidationError("Insufficient on-hand to ship")
RaiseInsufficient(p) ==
    /\ txn[p].pc = "raise"
    /\ Rollback(p, "ValidationError")
    /\ UNCHANGED <<req, resp, before, docs>>

\* level.save(update_fields=[...]): one UPDATE whose F() expressions read
\* the row as it is when the statement runs
SavedView(p) ==
    IF txn[p].op = "post_shipment_line"
    THEN ShipSave(View(p), TxnKey(p), txn[p].level, TxnQty(p))
    ELSE SaveOnHand(View(p), TxnKey(p), TxnQty(p))

Save(p) ==
    /\ txn[p].pc = "save"
    /\ LockFree(p, TxnKey(p))
    /\ locks' = LocksWith(p, {TxnKey(p)})
    /\ txn' = [txn EXCEPT ![p] =
                 [txn[p] EXCEPT !.dirty = @ \cup {TxnKey(p)},
                                !.rows = [k \in Keys |->
                                            IF k \in txn[p].dirty \cup {TxnKey(p)}
                                            THEN SavedView(p)[k] ELSE NoLevel],
                                !.pc = "create"]]
    /\ UNCHANGED <<levels, ledger, req, resp, before, docs>>

\* InventoryTransaction.objects.create(...)
CreateTxn(p) ==
    /\ txn[p].pc = "create"
    /\ txn' = [txn EXCEPT ![p].entries =
                 Append(@, IF txn[p].op = "post_shipment_line"
                           THEN ShipTxn(txn[p].arg) ELSE ReceiveTxn(txn[p].arg)),
                          ![p].pc = "commit"]
    /\ UNCHANGED <<levels, ledger, locks, req, resp, before, docs>>

\* the transaction.atomic block ends: the rows and the transactions written
\* become visible together and the locks are released
Commit(p) ==
    /\ txn[p].pc = "commit"
    /\ levels' = View(p)
    /\ ledger' = ledger \o txn[p].entries
    /\ docs' = [docs EXCEPT !.closed = @ \cup txn[p].closing]
    /\ locks' = Released(p)
    /\ txn' = [txn EXCEPT ![p] = [Idle EXCEPT !.pc = "done", !.op = txn[p].op,
                                              !.arg = txn[p].arg,
                                              !.level = txn[p].level,
                                              !.resp = "posted"]]
    /\ UNCHANGED <<req, resp, before>>

\* connections that have answered "posted"
Posted == {p \in Conns : txn[p].pc = "done" /\ txn[p].resp = "posted"}

RECURSIVE SumQty(_)
SumQty(ps) ==
    IF ps = {} THEN 0
    ELSE LET p == CHOOSE q \in ps : TRUE IN TxnQty(p) + SumQty(ps \ {p})

(***************************************************************************)
(* Claims on receipts and shipments                                        *)
(***************************************************************************)
IsReq(op) == req.op = op

ReqKey == <<req.arg.variant, req.arg.bin>>

\* the transactions the request appended
Appended == SubSeq(ledger, Len(before.ledger) + 1, Len(ledger))

\* C1: a goods-receipt line with qty > 0 is posted: on_hand of the line's
\* (variant, bin) level is its value before (0 when absent) plus qty, and
\* exactly one RECEIVE transaction with that qty, variant and bin is appended
C1_ReceiptAddsQty ==
    (IsReq("post_goods_receipt_line") /\ req.arg.qty_received > 0) =>
        /\ resp = "posted"
        /\ levels[ReqKey].exists
        /\ levels[ReqKey].on_hand = OnHand(before.levels, ReqKey) + req.arg.qty_received
        /\ Len(Appended) = 1
        /\ Appended[1].type = "RECEIVE"
        /\ Appended[1].qty = req.arg.qty_received
        /\ Appended[1].variant = req.arg.variant
        /\ Appended[1].bin_to = req.arg.bin

\* C2: a shipment line with 0 < qty <= on_hand of its level is posted:
\* on_hand decreases by qty, allocated decreases by min(allocated, qty), and
\* exactly one SHIP transaction of that qty is appended
C2_ShipmentEffect ==
    (/\ IsReq("post_shipment_line")
     /\ 0 < req.arg.qty
     /\ req.arg.qty <= OnHand(before.levels, ReqKey)) =>
        /\ resp = "posted"
        /\ levels[ReqKey].on_hand = before.levels[ReqKey].on_hand - req.arg.qty
        /\ levels[ReqKey].allocated =
               before.levels[ReqKey].allocated
                   - Min(before.levels[ReqKey].allocated, req.arg.qty)
        /\ Len(Appended) = 1
        /\ Appended[1].type = "SHIP"
        /\ Appended[1].qty = req.arg.qty

\* C3: a shipment line whose qty exceeds the on_hand of its level fails and
\* leaves on_hand, allocated and the ledger as they were
C3_ShipmentInsufficient ==
    (IsReq("post_shipment_line") /\ req.arg.qty > OnHand(before.levels, ReqKey)) =>
        /\ resp # "posted"
        /\ levels = before.levels
        /\ ledger = before.ledger

\* a shipment of more than a stocked level holds was refused
C3_Witness ==
    /\ IsReq("post_shipment_line")
    /\ before.levels[ReqKey].exists
    /\ before.levels[ReqKey].warehouse = req.arg.warehouse
    /\ before.levels[ReqKey].on_hand = 1
    /\ before.levels[ReqKey].allocated = 1
    /\ req.arg.qty = 2
    /\ resp = "ValidationError"

(***************************************************************************)
(* Claims on transfers                                                     *)
(***************************************************************************)
FromKey == <<req.arg.variant, req.arg.from_bin>>

ToKey == <<req.arg.variant, req.arg.to_bin>>

\* on_hand summed over the source and the destination level of a transfer
TransferSum(lv) ==
    IF FromKey = ToKey THEN OnHand(lv, FromKey)
    ELSE OnHand(lv, FromKey) + OnHand(lv, ToKey)

\* C4: a transfer, posted or failed, between two bins or within one bin,
\* leaves the sum of on_hand over its source and destination levels unchanged
C4_TransferConserves ==
    IsReq("post_transfer_line") => TransferSum(levels) = TransferSum(before.levels)

\* a transfer between two bins was posted and moved stock
C4_Witness ==
    /\ IsReq("post_transfer_line")
    /\ resp = "posted"
    /\ FromKey # ToKey
    /\ req.arg.qty = 2
    /\ OnHand(levels, ToKey) = OnHand(before.levels, ToKey) + 2

\* a transfer within one bin was posted
C4_WitnessSameBin ==
    /\ IsReq("post_transfer_line")
    /\ resp = "posted"
    /\ FromKey = ToKey
    /\ req.arg.qty = 2

\* C5: a transfer line with 0 < qty <= source on_hand is posted: the source
\* level loses qty, the destination level (created at 0 when absent) gains
\* qty, and exactly one TRANSFER transaction recording both ends is appended
C5_TransferEffect ==
    (/\ IsReq("post_transfer_line")
     /\ 0 < req.arg.qty
     /\ req.arg.qty <= OnHand(before.levels, FromKey)) =>
        /\ resp = "posted"
        /\ levels[ToKey].exists
        /\ FromKey # ToKey =>
              /\ levels[FromKey].on_hand = before.levels[FromKey].on_hand - req.arg.qty
              /\ levels[ToKey].on_hand = OnHand(before.levels, ToKey) + req.arg.qty
        /\ Len(Appended) = 1
        /\ Appended[1].type = "TRANSFER"
        /\ Appended[1].qty = req.arg.qty
        /\ Appended[1].bin_from = req.arg.from_bin
        /\ Appended[1].warehouse_from = BinWarehouse(req.arg.from_bin)
        /\ Appended[1].bin_to = req.arg.to_bin
        /\ Appended[1].warehouse_to = BinWarehouse(req.arg.to_bin)

LastLine == req.arg.lines[Len(req.arg.lines)]

LastKey == <<LastLine.variant, LastLine.bin>>

AtTurn == PostCountLines(before.levels, req.arg, Len(req.arg.lines) - 1)

\* C7: a count line whose counted_qty equals the on_hand of its level at its
\* turn writes no transaction and leaves on_hand as it is
C7_CountNoOp ==
    (/\ IsReq("close_and_post_stock_count")
     /\ AtTurn.err = "ok"
     /\ LastLine.counted_qty = OnHand(AtTurn.levels, LastKey)) =>
        /\ Appended = (IF resp = "posted" THEN AtTurn.entries ELSE <<>>)
        /\ OnHand(levels, LastKey) = OnHand(AtTurn.levels, LastKey)

\* a count line equal to a stocked level was posted and wrote nothing
C7_Witness ==
    /\ IsReq("close_and_post_stock_count")
    /\ resp = "posted"
    /\ Len(req.arg.lines) = 1
    /\ before.levels[LastKey].exists
    /\ before.levels[LastKey].on_hand = 2
    /\ LastLine.counted_qty = 2
    /\ ledger = <<>>

\* the second line of a count meets the on_hand the first line left
C7_WitnessSecondLine ==
    /\ IsReq("close_and_post_stock_count")
    /\ resp = "posted"
    /\ Len(req.arg.lines) = 2
    /\ req.arg.lines[1].bin = req.arg.lines[2].bin
    /\ OnHand(before.levels, LastKey) = 1
    /\ LastLine.counted_qty = 2
    /\ Len(ledger) = 1

\* C8: a count line whose counted_qty differs from the on_hand of its level
\* at its turn writes exactly one COUNT transaction whose qty is the absolute
\* value of (counted_qty - on_hand), and on_hand becomes counted_qty
C8_CountAdjusts ==
    (/\ IsReq("close_and_post_stock_count")
     /\ AtTurn.err = "ok"
     /\ LastLine.counted_qty # OnHand(AtTurn.levels, LastKey)) =>
        /\ resp = "posted"
        /\ Len(Appended) = Len(AtTurn.entries) + 1
        /\ Appended[Len(Appended)].type = "COUNT"
        /\ Appended[Len(Appended)].qty =
               Abs(LastLine.counted_qty - OnHand(AtTurn.levels, LastKey))
        /\ levels[LastKey].on_hand = LastLine.counted_qty

(***************************************************************************)
(* Concurrent receipts of qty 1 against one (variant, bin)                 *)
(***************************************************************************)
\* connections posting receipts at once
NReceipts == 3

\* every connection posts the line of req; its level is absent or holds 0
InitReceipts ==
    /\ req \in {[op |-> "post_goods_receipt_line", arg |-> l] :
                    l \in {g \in GRLines : g.qty_received = 1}}
    /\ levels \in {EmptyTable,
                   [EmptyTable EXCEPT ![<<req.arg.variant, req.arg.bin>>] =
                                          NewLevel(req.arg.warehouse)]}
    /\ ledger = <<>>
    /\ resp = "none"
    /\ before = [levels |-> levels, ledger |-> <<>>]
    /\ txn = [p \in 1 .. NReceipts |-> Idle]
    /\ locks = NoLocks
    /\ docs = NoDocs

NextReceipts ==
    \E p \in Conns :
        \/ Begin(p, req.op, req.arg)
        \/ GetOrCreate(p)
        \/ SelectForUpdate(p)
        \/ Save(p)
        \/ CreateTxn(p)
        \/ Commit(p)

SpecReceipts == InitReceipts /\ [][NextReceipts]_vars

Quiet == \A p \in Conns : txn[p].pc \in {"idle", "done"}

Called == {p \in Conns : txn[p].pc # "idle"}

\* C9: when N concurrent receipts of qty 1 against one (variant, bin) that
\* held 0 have all returned, on_hand is N and the ledger holds exactly N
\* RECEIVE transactions, whatever the interleaving
C9_NoLostReceipt ==
    Quiet =>
        /\ Called = Posted
        /\ OnHand(levels, ReqKey) = Cardinality(Called)
        /\ Len(ledger) = Cardinality(Called)
        /\ \A i \in 1 .. Len(ledger) : ledger[i] = ReceiveTxn(req.arg)

\* three receipts into a pair without a level all returned, after one of
\* them had waited for the row lock of another
C9_Witness ==
    /\ ~before.levels[ReqKey].exists
    /\ Cardinality(Posted) = 3
    /\ Quiet
    /\ levels[ReqKey].on_hand = 3

\* a receipt waits at select_for_update for the lock another receipt holds
C9_WitnessWaiting ==
    \E p \in Conns, q \in Conns :
        /\ txn[p].pc = "commit"
        /\ locks[ReqKey] = p
        /\ txn[q].pc = "select_for_update"

(***************************************************************************)
(* Concurrent shipments against one level                                  *)
(***************************************************************************)
\* connections posting shipments at once
NShipments == 2

ShipKey == <<"WIDG-STD", "A1">>

\* the level holds some stock, part of it allocated, or does not exist yet
InitShipments ==
    /\ levels \in {[EmptyTable EXCEPT ![ShipKey] = r] :
                      r \in {NoLevel} \cup
                            [exists : {TRUE}, warehouse : {BinWarehouse(ShipKey[2])},
                             on_hand : 0 .. MaxQty, allocated : 0 .. 1]}
    /\ req = [op |-> "post_shipment_line"]
    /\ ledger = <<>>
    /\ resp = "none"
    /\ before = [levels |-> levels, ledger |-> <<>>]
    /\ txn = [p \in 1 .. NShipments |-> Idle]
    /\ locks = NoLocks
    /\ docs = NoDocs

\* shipment lines of the level's (variant, warehouse, bin) with a positive qty
LevelShipmentLines ==
    {l \in ShipmentLines : /\ <<l.variant, l.bin>> = ShipKey
                           /\ l.warehouse = BinWarehouse(l.bin)
                           /\ l.qty > 0}

NextShipments ==
    \E p \in Conns :
        \/ \E line \in LevelShipmentLines : Begin(p, req.op, line)
        \/ GetOrCreate(p)
        \/ SelectForUpdate(p)
        \/ RefreshAndCheck(p)
        \/ RaiseInsufficient(p)
        \/ Save(p)
        \/ CreateTxn(p)
        \/ Commit(p)

SpecShipments == InitShipments /\ [][NextShipments]_vars

Refused == {p \in Conns : txn[p].pc = "done" /\ txn[p].resp = "ValidationError"}

\* C10: concurrent shipments against one level: each sufficiency check is
\* made on the on_hand read under the row lock, the shipments that commit
\* take no more in total than the level held, on_hand is never below zero,
\* and a shipment refused for on_hand < qty has no effect
C10_ShipmentsSerialized ==
    /\ \A p \in Conns : txn[p].pc \in {"raise", "save"} =>
           /\ locks[ShipKey] = p
           /\ txn[p].level.on_hand = OnHand(levels, ShipKey)
    /\ SumQty(Posted) <= OnHand(before.levels, ShipKey)
    /\ OnHand(levels, ShipKey) >= 0
    /\ OnHand(levels, ShipKey) = OnHand(before.levels, ShipKey) - SumQty(Posted)
    /\ Len(ledger) = Cardinality(Posted)
    /\ \A p \in Refused : txn[p].level.on_hand < TxnQty(p)
    /\ \A p \in Posted : txn[p].level.on_hand >= TxnQty(p)

\* two shipments the level could each have served alone raced: one was
\* posted, the other found the stock gone and was refused
C10_Witness ==
    \E p \in Posted, q \in Refused :
        /\ TxnQty(p) = 2
        /\ TxnQty(q) = 2
        /\ before.levels[ShipKey].on_hand = 2
        /\ levels[ShipKey].on_hand = 0

(***************************************************************************)
(* One posting request of any kind against any level table                 *)
(***************************************************************************)
NextPosting ==
    \/ \E line \in GRLines : Fresh /\ PostGRLine(line)
    \/ \E line \in ShipmentLines : Fresh /\ PostShipmentLine(line)
    \/ \E tline \in StockTransferLines : Fresh /\ PostTransferLine(tline)
    \/ \E count \in StockCounts : Fresh /\ CloseStockCount(count)

SpecPosting == InitAny /\ [][NextPosting]_vars

(***************************************************************************)
(* Claims on the level invariants                                          *)
(***************************************************************************)
\* C11: after any sequence of receipts, shipments, transfers and stock
\* counts, with any quantities their lines can store, on_hand of every level
\* is >= 0
C11_OnHandNonNegative == \A k \in Keys : OnHand(levels, k) >= 0

WithinOnHand(lv) ==
    \A k \in Keys : lv[k].exists =>
        /\ 0 <= lv[k].allocated
        /\ lv[k].allocated <= lv[k].on_hand

\* C12: a posting operation that commits from a state where
\* 0 <= allocated <= on_hand holds for every level leaves it holding for
\* every level, so available is never negative
C12_AllocatedWithinOnHand ==
    (~Fresh /\ resp = "posted" /\ WithinOnHand(before.levels)) =>
        /\ WithinOnHand(levels)
        /\ \A k \in Keys : available(levels[k]) >= 0

AllocatedNonNegative(lv) == \A k \in Keys : Allocated(lv, k) >= 0

\* C13: no posting operation makes allocated negative: from levels whose
\* allocated is >= 0 it leaves allocated >= 0 on every level, and a posted
\* shipment whose qty is at least the allocated amount leaves allocated at 0
C13_AllocatedNeverNegative ==
    AllocatedNonNegative(before.levels) =>
        /\ AllocatedNonNegative(levels)
        /\ (/\ IsReq("post_shipment_line")
            /\ resp = "posted"
            /\ req.arg.qty >= Allocated(before.levels, ReqKey)) =>
               levels[ReqKey].allocated = 0

\* a shipment of 2 from a level with 1 allocated was posted and left 0 allocated
C13_Witness ==
    /\ IsReq("post_shipment_line")
    /\ resp = "posted"
    /\ before.levels[ReqKey].exists
    /\ before.levels[ReqKey].allocated = 1
    /\ before.levels[ReqKey].on_hand = 2
    /\ req.arg.qty = 2
    /\ levels[ReqKey].allocated = 0

(***************************************************************************)
(* The inventory-transactions endpoint: a ModelViewSet over                *)
(* InventoryTransaction                                                    *)
(***************************************************************************)
\* rows a client sends: the transaction of a receipt of a positive qty into
\* a bin of its warehouse
TxnRows ==
    {ReceiveTxn(l) : l \in {g \in GRLines : /\ g.warehouse = BinWarehouse(g.bin)
                                            /\ g.qty_received > 0}}

AnswerLedger(op, arg, lg, status) ==
    /\ before' = Snapshot
    /\ req' = [op |-> op, arg |-> arg]
    /\ ledger' = lg
    /\ resp' = status
    /\ UNCHANGED <<levels, txn, locks, docs>>

\* POST /inventory-transactions/
CreateTransaction(row) ==
    AnswerLedger("create_transaction", [row |-> row], Append(ledger, row), "201")

\* PUT /inventory-transactions/<pk>/
UpdateTransaction(i, row) ==
    /\ i \in 1 .. Len(ledger)
    /\ AnswerLedger("update_transaction", [pk |-> i, row |-> row],
                    [ledger EXCEPT ![i] = row], "200")

\* DELETE /inventory-transactions/<pk>/
DestroyTransaction(i) ==
    /\ i \in 1 .. Len(ledger)
    /\ AnswerLedger("destroy_transaction", [pk |-> i],
                    SubSeq(ledger, 1, i - 1) \o SubSeq(ledger, i + 1, Len(ledger)),
                    "204")

\* no request has reached the inventory-transactions endpoint yet
Untouched ==
    req.op \notin {"create_transaction", "update_transaction", "destroy_transaction"}

\* receipts from an empty database, then one request to the
\* inventory-transactions endpoint
NextLedger ==
    \/ \E line \in GRLines : Untouched /\ Open /\ PostGRLine(line)
    \/ \E row \in TxnRows : Untouched /\ CreateTransaction(row)
    \/ \E i \in 1 .. MaxLedger, row \in TxnRows : Untouched /\ UpdateTransaction(i, row)
    \/ \E i \in 1 .. MaxLedger : Untouched /\ DestroyTransaction(i)

SpecLedger == Init /\ [][NextLedger]_vars

\* C14: an InventoryTransaction, once created, is never updated or deleted by
\* any operation the program exposes: every step keeps every entry of the
\* ledger, with all its fields, and the ledger only grows
C14_LedgerOnlyGrows ==
    [][/\ Len(ledger') >= Len(ledger)
       /\ \A i \in 1 .. Len(ledger) : ledger'[i] = ledger[i]]_vars

\* on_hand of the pair k as the first n entries of the ledger lg give it: the
\* recorded qty of the entries into the bin minus that of the entries out of it
RECURSIVE Derived(_, _, _)
Derived(lg, k, n) ==
    IF n = 0 THEN 0
    ELSE Derived(lg, k, n - 1)
         + (IF lg[n].variant = k[1] /\ lg[n].bin_to = k[2] THEN lg[n].qty ELSE 0)
         - (IF lg[n].variant = k[1] /\ lg[n].bin_from = k[2] THEN lg[n].qty ELSE 0)

\* C15: in every committed state reached by posting operations from levels
\* at 0, on_hand of each (variant, bin) is the sum of the recorded qty of the
\* transactions with bin_to = bin minus that of those with bin_from = bin
C15_LevelsFromLedger ==
    \A k \in Keys : OnHand(levels, k) = Derived(ledger, k, Len(ledger))

\* the ledger lg holds the transaction e: the line that writes e was posted
PostedIn(lg, e) == \E i \in 1 .. Len(lg) : lg[i] = e

NothingChanged == levels = before.levels /\ ledger = before.ledger

\* C16: posting again a goods-receipt, shipment or transfer line that was
\* posted already (the ledger holds the transaction of that line, with its
\* source_id) is rejected or leaves every on_hand and the ledger as they were
C16_NoRepost ==
    /\ (IsReq("post_goods_receipt_line") /\ PostedIn(before.ledger, ReceiveTxn(req.arg)))
           => (resp # "posted" \/ NothingChanged)
    /\ (IsReq("post_shipment_line") /\ PostedIn(before.ledger, ShipTxn(req.arg)))
           => (resp # "posted" \/ NothingChanged)
    /\ (IsReq("post_transfer_line") /\ PostedIn(before.ledger, TransferTxn(req.arg)))
           => (resp # "posted" \/ NothingChanged)

(***************************************************************************)
(* Claims on malformed quantities                                          *)
(***************************************************************************)
Rejected == resp = "ValidationError" /\ NothingChanged

\* C17: a goods-receipt line with qty <= 0 fails with ValidationError and
\* has no effect: no level is created or changed, no transaction is appended
C17_ReceiptRejectsNonPositive ==
    (IsReq("post_goods_receipt_line") /\ req.arg.qty_received <= 0) => Rejected

\* C18: a shipment or transfer line with qty <= 0 fails with ValidationError
\* and has no effect: no level is changed, no transaction is appended, and
\* the source level's on_hand and allocated do not increase
C18_ShipTransferRejectNonPositive ==
    /\ (IsReq("post_shipment_line") /\ req.arg.qty <= 0) =>
           /\ Rejected
           /\ OnHand(levels, ReqKey) <= OnHand(before.levels, ReqKey)
           /\ Allocated(levels, ReqKey) <= Allocated(before.levels, ReqKey)
    /\ (IsReq("post_transfer_line") /\ req.arg.qty <= 0) =>
           /\ Rejected
           /\ OnHand(levels, FromKey) <= OnHand(before.levels, FromKey)

(***************************************************************************)
(* Concurrent transfers, statement by statement                            *)
(***************************************************************************)
\* connections posting transfers at once
NTransfers == 2

TransferFromKey(p) == <<txn[p].arg.variant, txn[p].arg.from_bin>>

TransferToKey(p) == <<txn[p].arg.variant, txn[p].arg.to_bin>>

\* a transfer request reaches the view
BeginTransfer(p, tline) ==
    /\ txn[p].pc = "idle"
    /\ txn' = [txn EXCEPT ![p] = [Idle EXCEPT !.pc = "from_get_or_create",
                                              !.op = "post_transfer_line",
                                              !.arg = tline]]
    /\ UNCHANGED <<levels, ledger, locks, req, resp, before, docs>>

\* _get_or_create_level(variant, warehouse, bin) at the statement pc
GetOrCreateAt(p, pc, k, warehouse, next) ==
    /\ txn[p].pc = pc
    /\ LET g == _get_or_create_level(View(p), k[1], warehouse, k[2])
       IN  IF g.err # "ok" THEN Rollback(p, g.err)
           ELSE /\ CanWrite(p, g.levels)
                /\ txn' = [txn EXCEPT ![p] =
                             [Written(p, g.levels) EXCEPT !.pc = next,
                                                          !.level = g.levels[k]]]
                /\ locks' = LocksWith(p, Changed(p, g.levels))
                /\ UNCHANGED <<levels, ledger>>
    /\ UNCHANGED <<req, resp, before, docs>>

\* level.on_hand = F('on_hand') + d; level.save(update_fields=["on_hand"])
SaveAt(p, pc, k, d, next) ==
    /\ txn[p].pc = pc
    /\ LockFree(p, k)
    /\ locks' = LocksWith(p, {k})
    /\ txn' = [txn EXCEPT ![p] =
                 [Written(p, SaveOnHand(View(p), k, d)) EXCEPT !.pc = next]]
    /\ UNCHANGED <<levels, ledger, req, resp, before, docs>>

\* from_level = _get_or_create_level(variant, from_bin.warehouse, from_bin)
FromGetOrCreate(p) ==
    GetOrCreateAt(p, "from_get_or_create", TransferFromKey(p),
                  BinWarehouse(txn[p].arg.from_bin), "from_select_for_update")

\* from_level = ...select_for_update().get(pk=from_level.pk);
\* if from_level.on_hand < qty: ...
FromSelectForUpdate(p) ==
    /\ txn[p].pc = "from_select_for_update"
    /\ LockFree(p, TransferFromKey(p))
    /\ locks' = LocksWith(p, {TransferFromKey(p)})
    /\ LET from_level == View(p)[TransferFromKey(p)]
       IN  txn' = [txn EXCEPT ![p].level = from_level,
                              ![p].pc = IF TransferInsufficient(from_level, txn[p].arg.qty)
                                        THEN "from_raise" ELSE "from_save"]
    /\ UNCHANGED <<levels, ledger, req, resp, before, docs>>

\* raise ValidationError("Insufficient stock in source bin")
FromRaise(p) ==
    /\ txn[p].pc = "from_raise"
    /\ Rollback(p, "ValidationError")
    /\ UNCHANGED <<req, resp, before, docs>>

\* from_level.on_hand = F('on_hand') - qty; from_level.save(...)
FromSave(p) ==
    SaveAt(p, "from_save", TransferFromKey(p), 0 - txn[p].arg.qty, "transfer_create")

\* InventoryTransaction.objects.create(..., type=TRANSFER, ...)
TransferCreate(p) ==
    /\ txn[p].pc = "transfer_create"
    /\ txn' = [txn EXCEPT ![p].entries = Append(@, TransferTxn(txn[p].arg)),
                          ![p].pc = "to_get_or_create"]
    /\ UNCHANGED <<levels, ledger, locks, req, resp, before, docs>>

\* to_level = _get_or_create_level(variant, to_bin.warehouse, to_bin)
ToGetOrCreate(p) ==
    GetOrCreateAt(p, "to_get_or_create", TransferToKey(p),
                  BinWarehouse(txn[p].arg.to_bin), "to_select_for_update")

\* to_level = ...select_for_update().get(pk=to_level.pk)
ToSelectForUpdate(p) ==
    /\ txn[p].pc = "to_select_for_update"
    /\ LockFree(p, TransferToKey(p))
    /\ locks' = LocksWith(p, {TransferToKey(p)})
    /\ txn' = [txn EXCEPT ![p].level = View(p)[TransferToKey(p)],
                          ![p].pc = "to_save"]
    /\ UNCHANGED <<levels, ledger, req, resp, before, docs>>

\* to_level.on_hand = F('on_hand') + qty; to_level.save(...)
ToSave(p) ==
    SaveAt(p, "to_save", TransferToKey(p), txn[p].arg.qty, "commit")

(***************************************************************************)
(* Concurrent stock counts, statement by statement                         *)
(***************************************************************************)
\* the line the loop of p is at: the first of the lines still to post
CountLine(p) == txn[p].arg.todo[1]

CountKey(p) == <<CountLine(p).variant, CountLine(p).bin>>

\* a close request reaches the view: count.status = CLOSED is saved in the
\* view's atomic block and the loop of the service starts at the first line
BeginCount(p, count) ==
    /\ txn[p].pc = "idle"
    /\ txn' = [txn EXCEPT ![p] =
                 [Idle EXCEPT !.pc = "count_get_or_create",
                              !.op = "close_and_post_stock_count",
                              !.closing = {count.id},
                              !.arg = [id |-> count.id, warehouse |-> count.warehouse,
                                       lines |-> count.lines, todo |-> count.lines]]]
    /\ UNCHANGED <<levels, ledger, locks, req, resp, before, docs>>

\* the loop goes to its next line, or ends and the atomic block commits
NextLine(t) ==
    [t EXCEPT !.arg.todo = Tail(@),
              !.pc = IF Len(t.arg.todo) > 1 THEN "count_get_or_create" ELSE "commit"]

\* level = _get_or_create_level(line.variant, count.warehouse, line.bin)
CountGetOrCreate(p) ==
    /\ txn[p].pc = "count_get_or_create"
    /\ GetOrCreateAt(p, "count_get_or_create", CountKey(p), txn[p].arg.warehouse,
                     "count_select_for_update")

\* level = ...select_for_update().get(pk=level.pk);
\* delta = line.counted_qty - level.on_hand; if delta != 0: ...
CountSelectForUpdate(p) ==
    /\ txn[p].pc = "count_select_for_update"
    /\ LockFree(p, CountKey(p))
    /\ locks' = LocksWith(p, {CountKey(p)})
    /\ LET level == View(p)[CountKey(p)]
           t == [txn[p] EXCEPT !.level = level]
       IN  txn' = [txn EXCEPT ![p] =
                     IF CountDelta(CountLine(p), level) # 0
                     THEN [t EXCEPT !.pc = "count_save"]
                     ELSE NextLine(t)]
    /\ UNCHANGED <<levels, ledger, req, resp, before, docs>>

\* level.on_hand = F('on_hand') + delta; level.save(update_fields=["on_hand"])
CountSave(p) ==
    /\ txn[p].pc = "count_save"
    /\ SaveAt(p, "count_save", CountKey(p), CountDelta(CountLine(p), txn[p].level),
              "count_create")

\* InventoryTransaction.objects.create(..., type=COUNT, qty=delta, ...)
CountCreate(p) ==
    /\ txn[p].pc = "count_create"
    /\ txn' = [txn EXCEPT ![p] =
                 NextLine([txn[p] EXCEPT !.entries =
                     Append(@, CountTxn(txn[p].arg, CountLine(p),
                                        CountDelta(CountLine(p), txn[p].level)))])]
    /\ UNCHANGED <<levels, ledger, locks, req, resp, before, docs>>

\* the rows whose lock the next statement of p takes
NeedsLock(p) ==
    CASE txn[p].pc = "from_get_or_create" ->
             IF View(p)[TransferFromKey(p)].exists THEN {} ELSE {TransferFromKey(p)}
      [] txn[p].pc \in {"from_select_for_update", "from_save"} -> {TransferFromKey(p)}
      [] txn[p].pc = "to_get_or_create" ->
             IF View(p)[TransferToKey(p)].exists THEN {} ELSE {TransferToKey(p)}
      [] txn[p].pc \in {"to_select_for_update", "to_save"} -> {TransferToKey(p)}
      [] txn[p].pc = "count_get_or_create" ->
             IF View(p)[CountKey(p)].exists THEN {} ELSE {CountKey(p)}
      [] txn[p].pc \in {"count_select_for_update", "count_save"} -> {CountKey(p)}
      [] txn[p].pc \in {"get_or_create"} ->
             IF View(p)[TxnKey(p)].exists THEN {} ELSE {TxnKey(p)}
      [] txn[p].pc \in {"select_for_update", "save"} -> {TxnKey(p)}
      [] OTHER -> {}

\* the next statement of p waits for a row lock that q holds
WaitsFor(p, q) == p # q /\ \E k \in NeedsLock(p) : locks[k] = q

\* the database finds p and q waiting for each other, ends the statement of
\* p with OperationalError (deadlock detected) and rolls p back
DeadlockAbort(p) ==
    /\ \E q \in Conns : WaitsFor(p, q) /\ WaitsFor(q, p)
    /\ Rollback(p, "OperationalError")
    /\ UNCHANGED <<req, resp, before, docs>>

\* each level is absent or holds some stock under the warehouse of its bin
InitTransfers ==
    /\ levels \in [Keys -> {NoLevel} \cup
                            [exists : {TRUE}, warehouse : Warehouses,
                             on_hand : 0 .. MaxQty, allocated : {0}]]
    /\ \A k \in Keys : levels[k].exists => levels[k].warehouse = BinWarehouse(k[2])
    /\ req = [op |-> "post_transfer_line"]
    /\ ledger = <<>>
    /\ resp = "none"
    /\ before = [levels |-> levels, ledger |-> <<>>]
    /\ txn = [p \in 1 .. NTransfers |-> Idle]
    /\ locks = NoLocks
    /\ docs = NoDocs

\* transfer lines with a positive qty
PositiveTransferLines == {l \in StockTransferLines : l.qty > 0}

NextTransfers ==
    \E p \in Conns :
        \/ \E tline \in PositiveTransferLines : BeginTransfer(p, tline)
        \/ FromGetOrCreate(p)
        \/ FromSelectForUpdate(p)
        \/ FromRaise(p)
        \/ FromSave(p)
        \/ TransferCreate(p)
        \/ ToGetOrCreate(p)
        \/ ToSelectForUpdate(p)
        \/ ToSave(p)
        \/ Commit(p)
        \/ DeadlockAbort(p)

SpecTransfers == InitTransfers /\ [][NextTransfers]_vars

\* p has changed the on_hand of its source level
SourceMutated(p) ==
    txn[p].pc \in {"transfer_create", "to_get_or_create", "to_select_for_update",
                   "to_save", "commit"}

\* the stable key of a bin that orders the locks
BinRank(b) == IF b = "A1" THEN 1 ELSE 2

\* C19: a transfer holds the row locks of both its source and its
\* destination level before it changes either, and takes them in the order
\* of a stable bin key whichever bin is the source: a transfer that holds the
\* lock of the later of its two bins holds the lock of the earlier one
C19_TransferLocksBothInOrder ==
    \A p \in Conns :
        /\ SourceMutated(p) =>
               /\ locks[TransferFromKey(p)] = p
               /\ locks[TransferToKey(p)] = p
        /\ (/\ txn[p].pc \notin {"idle", "done"}
            /\ BinRank(txn[p].arg.from_bin) > BinRank(txn[p].arg.to_bin)
            /\ locks[TransferFromKey(p)] = p) => locks[TransferToKey(p)] = p

\* C20: under any interleaving of concurrent posting operations no circular
\* wait is reachable: no two operations each wait for a row lock the other holds
C20_NoCircularWait ==
    \A p \in Conns, q \in Conns : ~(WaitsFor(p, q) /\ WaitsFor(q, p))

(***************************************************************************)
(* Concurrent posting operations of every kind                             *)
(***************************************************************************)
\* connections posting at once
NConns == 2

\* each level is absent or holds some stock, part of it allocated, under the
\* warehouse of its bin
InitConcurrent ==
    /\ levels \in [Keys -> {NoLevel} \cup
                            [exists : {TRUE}, warehouse : Warehouses,
                             on_hand : 0 .. MaxQty, allocated : 0 .. 1]]
    /\ \A k \in Keys : levels[k].exists => levels[k].warehouse = BinWarehouse(k[2])
    /\ req = NoReq
    /\ ledger = <<>>
    /\ resp = "none"
    /\ before = [levels |-> levels, ledger |-> <<>>]
    /\ txn = [p \in 1 .. NConns |-> Idle]
    /\ locks = NoLocks
    /\ docs = NoDocs

\* goods-receipt lines with a positive qty into a bin of their warehouse
PositiveGRLines ==
    {l \in GRLines : l.warehouse = BinWarehouse(l.bin) /\ l.qty_received > 0}

\* shipment lines with a positive qty out of a bin of their warehouse
PositiveShipmentLines ==
    {l \in ShipmentLines : l.warehouse = BinWarehouse(l.bin) /\ l.qty > 0}

\* the count document of connection p: one line, a bin of the count's
\* warehouse, a counted quantity >= 0; two connections close two documents
CountsOf(p) ==
    {[id |-> p, warehouse |-> BinWarehouse(l.bin), lines |-> <<l>>] :
         l \in {c \in StockCountLines : c.counted_qty >= 0}}

NextConcurrent ==
    \E p \in Conns :
        \/ \E line \in PositiveGRLines : Begin(p, "post_goods_receipt_line", line)
        \/ \E line \in PositiveShipmentLines : Begin(p, "post_shipment_line", line)
        \/ \E tline \in PositiveTransferLines : BeginTransfer(p, tline)
        \/ \E count \in CountsOf(p) : BeginCount(p, count)
        \/ GetOrCreate(p)
        \/ SelectForUpdate(p)
        \/ RefreshAndCheck(p)
        \/ RaiseInsufficient(p)
        \/ Save(p)
        \/ CreateTxn(p)
        \/ FromGetOrCreate(p)
        \/ FromSelectForUpdate(p)
        \/ FromRaise(p)
        \/ FromSave(p)
        \/ TransferCreate(p)
        \/ ToGetOrCreate(p)
        \/ ToSelectForUpdate(p)
        \/ ToSave(p)
        \/ CountGetOrCreate(p)
        \/ CountSelectForUpdate(p)
        \/ CountSave(p)
        \/ CountCreate(p)
        \/ Commit(p)
        \/ DeadlockAbort(p)

SpecConcurrent == InitConcurrent /\ [][NextConcurrent]_vars

\* the service of connection p run alone on the table lv
ServiceOf(p, lv) ==
    CASE txn[p].op = "post_goods_receipt_line" -> post_goods_receipt_line(lv, txn[p].arg)
      [] txn[p].op = "post_shipment_line" -> post_shipment_line(lv, txn[p].arg)
      [] txn[p].op = "post_transfer_line" -> post_transfer_line(lv, txn[p].arg)
      [] OTHER -> close_and_post_stock_count(lv, txn[p].arg)

\* the orders in which the connections of ps can run one after the other
Orders(ps) ==
    {f \in [1 .. Cardinality(ps) -> ps] :
        \A i \in DOMAIN f, j \in DOMAIN f : f[i] = f[j] => i = j}

\* the first n operations of the order f run one after the other from the
\* levels the connections started on
RECURSIVE SerialRun(_, _)
SerialRun(f, n) ==
    IF n = 0 THEN Done(before.levels, <<>>)
    ELSE LET r == SerialRun(f, n - 1)
             s == ServiceOf(f[n], r.levels)
         IN  IF r.err # "ok" \/ s.err # "ok" THEN Raised(before.levels, "not serial")
             ELSE Done(s.levels, r.entries \o s.entries)

\* the row whose quantities p has read into level and is about to use
ReadKey(p) ==
    CASE txn[p].pc \in {"raise", "save"} -> {TxnKey(p)}
      [] txn[p].pc \in {"from_raise", "from_save"} -> {TransferFromKey(p)}
      [] txn[p].pc \in {"to_save"} -> {TransferToKey(p)}
      [] txn[p].pc \in {"count_save"} -> {CountKey(p)}
      [] OTHER -> {}

\* C21: a concurrent execution of posting operations is serializable: the
\* committed levels and the ledger are those of the committed operations run
\* one after the other in some order, and every on_hand and allocated an
\* operation decides or computes with was read under that row's lock and is
\* still the row's value
C21_Serializable ==
    /\ \E f \in Orders(Posted) :
           LET r == SerialRun(f, Cardinality(Posted))
           IN  r.err = "ok" /\ r.levels = levels /\ r.entries = ledger
    /\ \A p \in Conns : \A k \in ReadKey(p) :
           /\ locks[k] = p
           /\ txn[p].level = View(p)[k]

\* a shipment and a transfer out of the same level raced for its last unit:
\* both were committed or refused as if run one after the other
C21_Witness ==
    \E p \in Posted, q \in Refused :
        /\ txn[p].op = "post_transfer_line"
        /\ txn[q].op = "post_shipment_line"
        /\ TransferFromKey(p) = TxnKey(q)
        /\ OnHand(before.levels, TxnKey(q)) = 1
        /\ OnHand(levels, TxnKey(q)) = 0

\* two operations of different kinds on the same level both committed
C21_WitnessBoth ==
    \E p \in Posted, q \in Posted :
        /\ txn[p].op = "close_and_post_stock_count"
        /\ txn[q].op = "post_goods_receipt_line"
        /\ <<txn[p].arg.lines[1].variant, txn[p].arg.lines[1].bin>> = TxnKey(q)
        /\ Len(ledger) = 2

(***************************************************************************)
(* Concurrent transfers between levels filed under any warehouse           *)
(***************************************************************************)
\* each level is absent or holds some stock, under the warehouse of its bin
\* or, as a receipt whose line named another warehouse leaves it, under another
InitTransfersAny ==
    /\ levels \in [Keys -> {NoLevel} \cup
                            [exists : {TRUE}, warehouse : Warehouses,
                             on_hand : 0 .. MaxQty, allocated : {0}]]
    /\ req = [op |-> "post_transfer_line"]
    /\ ledger = <<>>
    /\ resp = "none"
    /\ before = [levels |-> levels, ledger |-> <<>>]
    /\ txn = [p \in 1 .. NTransfers |-> Idle]
    /\ locks = NoLocks
    /\ docs = NoDocs

SpecTransfersAny == InitTransfersAny /\ [][NextTransfers]_vars

\* on_hand summed over all levels of the table lv
TotalOnHand(lv) == OnHand(lv, <<"WIDG-STD", "A1">>) + OnHand(lv, <<"WIDG-STD", "B1">>)

\* connections whose transfer failed
Failed == {p \in Conns : txn[p].pc = "done" /\ txn[p].resp # "posted"}

\* C22: a transfer whose destination step fails after the source decrement
\* and the TRANSFER transaction were written rolls back whole: the committed
\* levels and ledger are those of the transfers that were posted, with
\* nothing of a failed one, and the committed table, which is what any other
\* connection reads, never has a source decremented without its destination
\* incremented
C22_TransferRollsBackWhole ==
    /\ TotalOnHand(levels) = TotalOnHand(before.levels)
    /\ Len(ledger) = Cardinality(Posted)
    /\ \E f \in Orders(Posted) :
           LET r == SerialRun(f, Cardinality(Posted))
           IN  r.err = "ok" /\ r.levels = levels /\ r.entries = ledger
    /\ (Posted = {} /\ Failed # {}) => (levels = before.levels /\ ledger = <<>>)

\* a transfer whose source held enough failed at its destination, a level
\* filed under another warehouse, after it had decremented the source
C22_Witness ==
    \E p \in Failed :
        /\ txn[p].resp = "IntegrityError"
        /\ TransferFromKey(p) # TransferToKey(p)
        /\ before.levels[TransferFromKey(p)].exists
        /\ before.levels[TransferFromKey(p)].warehouse = BinWarehouse(txn[p].arg.from_bin)
        /\ before.levels[TransferFromKey(p)].on_hand >= txn[p].arg.qty
        /\ before.levels[TransferToKey(p)].exists
        /\ before.levels[TransferToKey(p)].warehouse # BinWarehouse(txn[p].arg.to_bin)
        /\ Posted = {}
        /\ levels = before.levels

\* a transfer the database aborted while it waited for its destination row
C22_WitnessDeadlock ==
    \E p \in Failed : txn[p].resp = "OperationalError"

(***************************************************************************)
(* Claims on the shape of ledger entries                                   *)
(***************************************************************************)
OnlyTo(e) ==
    /\ e.warehouse_from = None /\ e.bin_from = None
    /\ e.warehouse_to # None /\ e.bin_to # None

OnlyFrom(e) ==
    /\ e.warehouse_from # None /\ e.bin_from # None
    /\ e.warehouse_to = None /\ e.bin_to = None

BothEnds(e) ==
    /\ e.warehouse_from # None /\ e.bin_from # None
    /\ e.warehouse_to # None /\ e.bin_to # None

\* C23: the direction fields of every ledger entry match its type: RECEIVE
\* only the *_to pair, SHIP only the *_from pair, TRANSFER both pairs, COUNT
\* exactly one pair; and the COUNT entry of a line counted below the on_hand
\* of its level has only the *_from pair, of one counted above only the *_to pair
C23_DirectionMatchesType ==
    /\ \A i \in 1 .. Len(ledger) :
           /\ ledger[i].type = "RECEIVE" => OnlyTo(ledger[i])
           /\ ledger[i].type = "SHIP" => OnlyFrom(ledger[i])
           /\ ledger[i].type = "TRANSFER" => BothEnds(ledger[i])
           /\ ledger[i].type = "COUNT" => (OnlyFrom(ledger[i]) \/ OnlyTo(ledger[i]))
    /\ (/\ IsReq("close_and_post_stock_count")
        /\ resp = "posted"
        /\ LastLine.counted_qty < OnHand(AtTurn.levels, LastKey)) =>
           /\ OnlyFrom(ledger[Len(ledger)])
           /\ ledger[Len(ledger)].bin_from = LastLine.bin
    /\ (/\ IsReq("close_and_post_stock_count")
        /\ resp = "posted"
        /\ LastLine.counted_qty > OnHand(AtTurn.levels, LastKey)) =>
           /\ OnlyTo(ledger[Len(ledger)])
           /\ ledger[Len(ledger)].bin_to = LastLine.bin

\* a count found less than the level held after a receipt: its COUNT entry
\* has the *_from pair only
C23_Witness ==
    /\ IsReq("close_and_post_stock_count")
    /\ resp = "posted"
    /\ Len(ledger) = 2
    /\ ledger[1].type = "RECEIVE"
    /\ ledger[2].type = "COUNT"
    /\ LastLine.counted_qty < OnHand(before.levels, LastKey)
    /\ OnlyFrom(ledger[2])

\* C24: a stock count has no insufficient-stock failure: a count whose
\* lines all have counted_qty >= 0 commits whatever the on_hand and
\* allocated of their levels, absent levels included, and on_hand of the
\* level of its last line is that line's counted_qty
C24_CountAlwaysCommits ==
    (/\ IsReq("close_and_post_stock_count")
     /\ \A i \in 1 .. Len(req.arg.lines) : req.arg.lines[i].counted_qty >= 0) =>
        /\ resp = "posted"
        /\ levels[LastKey].exists
        /\ levels[LastKey].on_hand = LastLine.counted_qty

\* C25: a shipment or a transfer of a positive qty above the on_hand of its
\* source level is reported as InsufficientStockError, an error kind other
\* than the ValidationError of a malformed line
C25_InsufficientStockError ==
    /\ (/\ IsReq("post_shipment_line")
        /\ req.arg.qty > 0
        /\ req.arg.qty > OnHand(before.levels, ReqKey)) =>
           resp = "InsufficientStockError"
    /\ (/\ IsReq("post_transfer_line")
        /\ req.arg.qty > 0
        /\ req.arg.qty > OnHand(before.levels, FromKey)) =>
           resp = "InsufficientStockError"

(***************************************************************************)
(* Claims on the creation of levels                                        *)
(***************************************************************************)
\* the connections holding a row of the pair k that they inserted and have
\* not committed
Inserting(k) ==
    {p \in Conns : k \in txn[p].dirty /\ txn[p].rows[k].exists /\ ~levels[k].exists}

\* the pair whose level p has got or created and not yet written to
FreshKey(p) ==
    CASE txn[p].pc = "select_for_update" -> {TxnKey(p)}
      [] txn[p].pc = "from_select_for_update" -> {TransferFromKey(p)}
      [] txn[p].pc = "to_select_for_update" -> {TransferToKey(p)} \ {TransferFromKey(p)}
      [] txn[p].pc = "count_select_for_update" -> {CountKey(p)}
      [] OTHER -> {}

\* C26: there is at most one InventoryLevel per (variant, bin), also while
\* two operations touch a pair without a level at once: at most one
\* connection holds an inserted row of the pair, none when the pair has a
\* committed row; and the level a first movement creates holds on_hand 0 and
\* allocated 0 before the movement is applied
C26_OneLevelPerPair ==
    /\ \A k \in Keys : Cardinality(Inserting(k)) <= 1
    /\ \A p \in Conns : \A k \in FreshKey(p) :
           p \in Inserting(k) =>
               /\ locks[k] = p
               /\ txn[p].rows[k].on_hand = 0
               /\ txn[p].rows[k].allocated = 0

\* a connection waits to create the level of a pair while another holds the
\* row it inserted for that pair
C26_Witness ==
    \E p \in Conns, q \in Conns :
        /\ p # q
        /\ txn[p].pc = "select_for_update"
        /\ p \in Inserting(TxnKey(p))
        /\ txn[q].pc = "to_get_or_create"
        /\ TransferToKey(q) = TxnKey(p)

\* both then committed on the one level of the pair
C26_WitnessBoth ==
    \E p \in Posted, q \in Posted :
        /\ txn[p].op = "post_goods_receipt_line"
        /\ txn[q].op = "post_transfer_line"
        /\ TransferToKey(q) = TxnKey(p)
        /\ ~before.levels[TxnKey(p)].exists
        /\ levels[TxnKey(p)].on_hand = txn[p].arg.qty_received + txn[q].arg.qty

(***************************************************************************)
(* Receipts, then one request to the inventory-levels endpoint             *)
(***************************************************************************)
\* no request has reached the inventory-levels endpoint yet
LevelsUntouched == req.op \notin {"create", "update", "destroy"}

\* rows a client sends: a level under any warehouse with quantities >= 0
SentRows ==
    {r \in LevelRows : r.exists /\ r.on_hand >= 0 /\ r.allocated >= 0}

NextStock ==
    \/ \E line \in GRLines : LevelsUntouched /\ Open /\ PostGRLine(line)
    \/ \E k \in Keys, row \in SentRows : LevelsUntouched /\ CreateLevel(k, row)
    \/ \E k \in Keys, row \in SentRows : LevelsUntouched /\ UpdateLevel(k, row)
    \/ \E k \in Keys : LevelsUntouched /\ DestroyLevel(k)

SpecStock == Init /\ [][NextStock]_vars

PostingOps ==
    {"post_goods_receipt_line", "post_shipment_line", "post_transfer_line",
     "close_and_post_stock_count"}

\* C27: on_hand and allocated of a level are changed only by the four
\* posting operations and a level is never deleted: a request that is not a
\* posting operation leaves every level as it was, and every level that
\* existed before a request exists after it
C27_OnlyPostingChangesLevels ==
    /\ levels # before.levels => req.op \in PostingOps
    /\ \A k \in Keys : before.levels[k].exists => levels[k].exists

(***************************************************************************)
(* Reservations: rows of the Reservation table, written by the admin site  *)
(***************************************************************************)
MaxReservations == 1

\* Reservation: variant, warehouse, bin and qty with no validator
Reservations ==
    [variant : Variants, warehouse : Warehouses, bin : Bins, qty : Qty]

\* the sequence s without its i-th element
RemoveAt(s, i) ==
    [j \in 1 .. (Len(s) - 1) |-> IF j < i THEN s[j] ELSE s[j + 1]]

\* the admin's add view of Reservation: Model.save inserts the row and
\* nothing else runs
AddReservation(row) ==
    /\ before' = Snapshot
    /\ req' = [op |-> "add_reservation", arg |-> row]
    /\ docs' = [docs EXCEPT !.reservations = Append(@, row)]
    /\ resp' = "added"
    /\ UNCHANGED <<levels, ledger, txn, locks>>

\* the admin's delete view of Reservation: Model.delete removes the row and
\* nothing else runs
DeleteReservation(i) ==
    /\ i \in DOMAIN docs.reservations
    /\ before' = Snapshot
    /\ req' = [op |-> "delete_reservation", arg |-> docs.reservations[i]]
    /\ docs' = [docs EXCEPT !.reservations = RemoveAt(@, i)]
    /\ resp' = "deleted"
    /\ UNCHANGED <<levels, ledger, txn, locks>>

NextReservations ==
    \/ \E row \in Reservations :
           Len(docs.reservations) < MaxReservations /\ AddReservation(row)
    \/ \E i \in 1 .. MaxReservations : DeleteReservation(i)

SpecReservations == InitAny /\ [][NextReservations]_vars

\* a reservation or release of a positive qty on a level that exists with
\* 0 <= allocated <= on_hand
SoundLevel(op) ==
    /\ IsReq(op)
    /\ req.arg.qty > 0
    /\ before.levels[ReqKey].exists
    /\ 0 <= before.levels[ReqKey].allocated
    /\ before.levels[ReqKey].allocated <= before.levels[ReqKey].on_hand

\* C28: reserving qty on an existing level raises its allocated by qty when
\* allocated + qty <= on_hand, and otherwise answers OverAllocationError and
\* leaves the level as it was
C28_ReserveWithinOnHand ==
    SoundLevel("add_reservation") =>
        LET old == before.levels[ReqKey]
        IN  IF old.allocated + req.arg.qty <= old.on_hand
            THEN /\ resp = "added"
                 /\ levels[ReqKey].allocated = old.allocated + req.arg.qty
            ELSE /\ resp = "OverAllocationError"
                 /\ levels[ReqKey] = old

\* C29: releasing a reservation lowers allocated of its level by the
\* reservation's qty, never below zero, and leaves on_hand as it was
C29_ReleaseFloorsAtZero ==
    SoundLevel("delete_reservation") =>
        LET old == before.levels[ReqKey]
            left == old.allocated - req.arg.qty
        IN  /\ levels[ReqKey].allocated = IF left < 0 THEN 0 ELSE left
            /\ levels[ReqKey].on_hand = old.on_hand

(***************************************************************************)
(* Units of measure: receipts in any uom and the UOMConversion table       *)
(***************************************************************************)
\* UOMConversion rows: factor multiplies a qty in from_uom into to_uom
Conversions == [from_uom : Uoms, to_uom : Uoms, factor : {2}]

\* the admin's add view of UOMConversion: the form rejects a second row of
\* one (organization, from_uom, to_uom)
AddConversion(row) ==
    LET taken == \E c \in docs.conversions :
                     c.from_uom = row.from_uom /\ c.to_uom = row.to_uom
    IN  /\ before' = Snapshot
        /\ req' = [op |-> "add_conversion", arg |-> row]
        /\ docs' = IF taken THEN docs
                   ELSE [docs EXCEPT !.conversions = @ \cup {row}]
        /\ resp' = IF taken THEN "invalid" ELSE "added"
        /\ UNCHANGED <<levels, ledger, txn, locks>>

NextUom ==
    \/ \E row \in Conversions : AddConversion(row)
    \/ \E line \in GRLinesIn(Uoms) : Open /\ PostGRLine(line)

SpecUom == Init /\ [][NextUom]_vars

\* the stored direct factors from the receipt line's uom to the base uom
DirectFactors ==
    {c.factor : c \in {d \in docs.conversions :
                           /\ d.from_uom = req.arg.uom
                           /\ d.to_uom = base_uom(req.arg.variant)}}

\* C30: a receipt of a positive qty in a uom other than the product's base
\* uom, into a bin of its warehouse, adds qty times the stored direct factor
\* to on_hand, and answers ConversionNotFoundError and changes nothing when
\* no direct factor is stored
C30_ReceiptConvertsToBase ==
    (/\ IsReq("post_goods_receipt_line")
     /\ req.arg.uom # base_uom(req.arg.variant)
     /\ req.arg.qty_received > 0
     /\ resp # "IntegrityError") =>
        IF DirectFactors = {}
        THEN /\ resp = "ConversionNotFoundError"
             /\ levels = before.levels
             /\ ledger = before.ledger
        ELSE /\ resp = "posted"
             /\ \E f \in DirectFactors :
                    OnHand(levels, ReqKey) =
                        OnHand(before.levels, ReqKey) + req.arg.qty_received * f

\* the receipt of a qty in another uom with a stored factor different from 1
\* adds the raw qty to on_hand
C30_RawQtyAdded ==
    /\ IsReq("post_goods_receipt_line")
    /\ req.arg.uom # base_uom(req.arg.variant)
    /\ req.arg.qty_received > 0
    /\ resp = "posted"
    /\ DirectFactors = {2}
    /\ OnHand(levels, ReqKey) = OnHand(before.levels, ReqKey) + req.arg.qty_received

(***************************************************************************)
(* Claims on what a posting leaves alone                                   *)
(***************************************************************************)
\* the (variant, bin) pairs the lines of the request name
NamedKeys ==
    CASE req.op \in {"post_goods_receipt_line", "post_shipment_line"} -> {ReqKey}
      [] req.op = "post_transfer_line" -> {FromKey, ToKey}
      [] req.op = "close_and_post_stock_count" ->
             {<<req.arg.lines[i].variant, req.arg.lines[i].bin>> :
                  i \in 1 .. Len(req.arg.lines)}
      [] OTHER -> {}

\* C31: a posting operation, posted or failed, leaves every level its lines
\* do not name as it was, and a receipt, a transfer and a stock count leave
\* allocated as it was on every level
C31_OnlyNamedLevelsChange ==
    req.op \in PostingOps =>
        /\ \A k \in Keys \ NamedKeys : levels[k] = before.levels[k]
        /\ req.op # "post_shipment_line" =>
               \A k \in Keys : Allocated(levels, k) = Allocated(before.levels, k)

\* a posted operation changed on_hand of the level it names beside another
\* level that holds stock and allocation
C31_Witness ==
    /\ req.op \in PostingOps
    /\ resp = "posted"
    /\ \E k \in NamedKeys : OnHand(levels, k) # OnHand(before.levels, k)
    /\ \E k \in Keys \ NamedKeys :
           /\ before.levels[k].exists
           /\ before.levels[k].on_hand > 0
           /\ before.levels[k].allocated > 0

\* a posted count changed on_hand of a level that has allocation
C31_WitnessCount ==
    /\ IsReq("close_and_post_stock_count")
    /\ resp = "posted"
    /\ \E k \in NamedKeys :
           /\ OnHand(levels, k) # OnHand(before.levels, k)
           /\ Allocated(before.levels, k) > 0

(***************************************************************************)
(* A stock count closed, then closed again                                 *)
(***************************************************************************)
\* the ledger has room for the count to be closed again
Reopen == Len(ledger) <= MaxLedger

NextRecount ==
    \/ \E count \in StockCounts : Fresh /\ CloseStockCount(count)
    \/ IsReq("close_and_post_stock_count") /\ Reopen /\ CloseStockCount(req.arg)

SpecRecount == InitAny /\ [][NextRecount]_vars

\* the lines of the count address pairwise distinct (variant, bin) pairs
DistinctPairs(count) ==
    \A i \in 1 .. Len(count.lines), j \in 1 .. Len(count.lines) :
        (/\ count.lines[i].variant = count.lines[j].variant
         /\ count.lines[i].bin = count.lines[j].bin) => i = j

\* C32: closing again the count that was closed last, with lines on pairwise
\* distinct (variant, bin) pairs, changes no level and appends no transaction
C32_RecountChangesNothing ==
    [][(/\ IsReq("close_and_post_stock_count")
        /\ req' = req
        /\ DistinctPairs(req.arg))
           => (levels' = levels /\ ledger' = ledger)]_vars

\* a count of two lines on two pairs was posted a second time after its
\* first posting had written its adjustments
C32_Witness ==
    /\ IsReq("close_and_post_stock_count")
    /\ resp = "posted"
    /\ Len(req.arg.lines) = 2
    /\ DistinctPairs(req.arg)
    /\ Len(before.ledger) = 2
    /\ ledger = before.ledger
    /\ levels = before.levels

(***************************************************************************)
(* One close request, statement by statement                               *)
(***************************************************************************)
\* one connection; each level is absent or holds some stock under either
\* warehouse
InitClose ==
    /\ levels \in [Keys -> {NoLevel} \cup
                            [exists : {TRUE}, warehouse : Warehouses,
                             on_hand : 0 .. MaxQty, allocated : {0}]]
    /\ req = NoReq
    /\ ledger = <<>>
    /\ resp = "none"
    /\ before = [levels |-> levels, ledger |-> <<>>]
    /\ txn = [p \in {1} |-> Idle]
    /\ locks = NoLocks
    /\ docs = NoDocs

NextClose ==
    \E p \in Conns :
        \/ \E count \in StockCounts : BeginCount(p, count)
        \/ CountGetOrCreate(p)
        \/ CountSelectForUpdate(p)
        \/ CountSave(p)
        \/ CountCreate(p)
        \/ Commit(p)

SpecClose == InitClose /\ [][NextClose]_vars

\* C33: the committed state holds the whole of a close or nothing of it:
\* while the request runs and after it failed, the levels and the ledger are
\* as they were and the count is not CLOSED; after it succeeded the count is
\* CLOSED and the levels and the ledger are those of all its lines applied
C33_CloseAllOrNothing ==
    \A p \in Conns :
        IF txn[p].pc = "done" /\ txn[p].resp = "posted"
        THEN LET r == PostCountLines(before.levels, txn[p].arg, Len(txn[p].arg.lines))
             IN  /\ r.err = "ok"
                 /\ levels = r.levels
                 /\ ledger = r.entries
                 /\ docs.closed = {txn[p].arg.id}
        ELSE /\ levels = before.levels
             /\ ledger = <<>>
             /\ docs.closed = {}

\* the close failed on its second line after its first line had changed a
\* level and written its COUNT transaction
C33_Witness ==
    \E p \in Conns :
        /\ txn[p].pc = "done"
        /\ txn[p].resp = "IntegrityError"
        /\ Len(txn[p].arg.lines) = 2
        /\ LET r == PostCountLines(before.levels, txn[p].arg, 1)
           IN  r.err = "ok" /\ Len(r.entries) = 1 /\ r.levels # before.levels

\* the close is about to fail on its second line, holding the change of the
\* first line uncommitted
C33_WitnessPending ==
    \E p \in Conns :
        /\ txn[p].pc = "count_get_or_create"
        /\ Len(txn[p].arg.todo) = 1
        /\ Len(txn[p].entries) = 1
        /\ txn[p].dirty # {}
        /\ _get_or_create_level(View(p), CountLine(p).variant,
                                txn[p].arg.warehouse, CountLine(p).bin).err # "ok"

\* a close of two lines succeeded and the count is CLOSED
C33_WitnessClosed ==
    \E p \in Conns :
        /\ txn[p].pc = "done"
        /\ txn[p].resp = "posted"
        /\ Len(ledger) = 2
        /\ docs.closed = {1}

(***************************************************************************)
(* Claims on the level row a failed operation created                      *)
(***************************************************************************)
\* the (variant, bin) pairs the operation of connection p addresses
KeysOf(p) ==
    CASE txn[p].op \in {"post_goods_receipt_line", "post_shipment_line"} -> {TxnKey(p)}
      [] txn[p].op = "post_transfer_line" -> {TransferFromKey(p), TransferToKey(p)}
      [] txn[p].op = "close_and_post_stock_count" ->
             {<<txn[p].arg.lines[i].variant, txn[p].arg.lines[i].bin>> :
                  i \in 1 .. Len(txn[p].arg.lines)}
      [] OTHER -> {}

\* the pair a shipment or a transfer takes stock from
SourceKey(p) ==
    IF txn[p].op = "post_transfer_line" THEN TransferFromKey(p) ELSE TxnKey(p)

\* shipments and transfers that failed for insufficient stock
Short ==
    {p \in Conns : /\ txn[p].op \in {"post_shipment_line", "post_transfer_line"}
                   /\ txn[p].pc = "done"
                   /\ txn[p].resp = "ValidationError"}

\* C34: a shipment or a transfer that failed for insufficient stock on a pair
\* that had no level row leaves no row for that pair: the pair has a row
\* only when a posted operation that addresses it created one
C34_FailedCreatesNoLevel ==
    \A p \in Short :
        (~before.levels[SourceKey(p)].exists /\ levels[SourceKey(p)].exists) =>
            \E q \in Posted : SourceKey(p) \in KeysOf(q)

\* a shipment and a transfer both failed on pairs without a row, and the
\* pairs still have none
C34_Witness ==
    \E p \in Short, q \in Short :
        /\ txn[p].op = "post_shipment_line"
        /\ txn[q].op = "post_transfer_line"
        /\ ~before.levels[SourceKey(p)].exists
        /\ ~before.levels[SourceKey(q)].exists
        /\ ~levels[SourceKey(p)].exists
        /\ ~levels[SourceKey(q)].exists

\* a shipment holds, uncommitted, the row it created and is about to fail
C34_WitnessPending ==
    \E p \in Conns :
        /\ txn[p].op = "post_shipment_line"
        /\ txn[p].pc = "raise"
        /\ TxnKey(p) \in txn[p].dirty
        /\ ~levels[TxnKey(p)].exists

(***************************************************************************)
(* Claims on the denormalized warehouse of a level                         *)
(***************************************************************************)
\* C35: every level the posting operations create is under the warehouse of
\* its bin, and no posting operation fails on the (variant, bin) uniqueness
\* constraint
C35_LevelUnderWarehouseOfBin ==
    /\ \A k \in Keys : levels[k].exists => levels[k].warehouse = BinWarehouse(k[2])
    /\ resp # "IntegrityError"

\* a level was created under another warehouse than that of its bin and a
\* later operation on the pair failed on the uniqueness constraint
C35_MismatchThenIntegrityError ==
    /\ resp = "IntegrityError"
    /\ \E k \in NamedKeys :
           /\ before.levels[k].exists
           /\ before.levels[k].warehouse # BinWarehouse(k[2])

(***************************************************************************)
(* Sales: Sale.save                                                        *)
(***************************************************************************)
\* a Sale not saved yet: quantity is a PositiveIntegerField, which takes 0;
\* price_at_sale 0 stands for a price that is falsy, unset or zero
NewSales == [pk : {None}, quantity : 0 .. MaxQty, price_at_sale : 0 .. 2]

\* the object has the attribute: a field of its model
hasattr(obj, name) == name \in DOMAIN obj

\* Sale.save on the tables d: the price defaulted from the product, the total
\* recomputed, the stock of the product reduced when the sale has no primary
\* key, then Model.save; reading an attribute the product does not have
\* raises AttributeError before anything is stored
Sale_save(d, sale) ==
    IF sale.price_at_sale = 0 /\ ~hasattr(d.product, "price")
    THEN [err |-> "AttributeError", docs |-> d]
    ELSE LET price == IF sale.price_at_sale = 0 THEN d.product.price
                      ELSE sale.price_at_sale
             row == [quantity |-> sale.quantity, price_at_sale |-> price,
                     total_price |-> sale.quantity * price]
         IN  IF sale.pk = None
             THEN IF ~hasattr(d.product, "stock_quantity")
                  THEN [err |-> "AttributeError", docs |-> d]
                  ELSE [err |-> "ok",
                        docs |-> [d EXCEPT !.product.stock_quantity = @ - sale.quantity,
                                           !.sales = Append(@, row)]]
             ELSE [err |-> "ok", docs |-> [d EXCEPT !.sales[sale.pk] = row]]

\* a Sale is saved; the request keeps the product as the sale had loaded it
SaveSale(sale) ==
    LET r == Sale_save(docs, sale)
    IN  /\ before' = Snapshot
        /\ req' = [op |-> "save_sale", arg |-> sale, product |-> docs.product]
        /\ docs' = r.docs
        /\ resp' = IF r.err = "ok" THEN "saved" ELSE r.err
        /\ UNCHANGED <<levels, ledger, txn, locks>>

NextSale ==
    \/ \E line \in GRLines : Open /\ PostGRLine(line)
    \/ \E sale \in NewSales : SaveSale(sale)

SpecSale == Init /\ [][NextSale]_vars

\* C36: the first save of a Sale with a quantity and a price stores it with
\* total_price = quantity x price_at_sale and takes its quantity off the
\* stock of the product once
C36_SaleDeductsOnce ==
    (/\ IsReq("save_sale")
     /\ req.arg.pk = None
     /\ req.arg.quantity > 0
     /\ req.arg.price_at_sale > 0) =>
        /\ resp = "saved"
        /\ Len(docs.sales) > 0
        /\ docs.sales[Len(docs.sales)].total_price =
               req.arg.quantity * req.arg.price_at_sale
        /\ hasattr(docs.product, "stock_quantity")
        /\ docs.product.stock_quantity = req.product.stock_quantity - req.arg.quantity

\* the first save of a Sale raised AttributeError and stored nothing
C36_FirstSaveRaises ==
    /\ IsReq("save_sale")
    /\ req.arg.quantity > 0
    /\ req.arg.price_at_sale > 0
    /\ resp = "AttributeError"
    /\ docs.sales = <<>>
    /\ docs.product = req.product

=============================================================================
